---- MODULE Spec2Model ----
(***************************************************************************)
(* Model of the Timeline observer registry (packages/core/timeline) and of *)
(* the Graph request batch (packages/graph/batch.ts).                      *)
(*                                                                         *)
(* Registries are heap objects: a Timeline holds a reference to one, and   *)
(* several Timelines may hold the same reference.  A batch is the closure  *)
(* created by createBatch: its registrationPromises, its requests and the  *)
(* state of its execute() coroutine.  Promise continuations are separate   *)
(* steps; everything between two awaits is one step.                       *)
(***************************************************************************)
EXTENDS Integers, Sequences, FiniteSets, TLC

\* ------------------------------------------------------------------ bounds
NumInst == 2
MaxRegs == 2
MaxOps == 3
MaxDrain == 5
SmallChunk == 2
LargeChunk == 11
MaxObservers == 2
MaxFlushes == 2

Insts == 1..NumInst
Batches == {1, 2}

\* createBatch(base, maxRequests): batch 1 is created with a small chunk size,
\* batch 2 with one that makes fragment ids of two digits
maxRequests(b) == IF b = 1 THEN SmallChunk ELSE LargeChunk
\* registry 1 is the one the instances may inherit; registry i + 1 is the
\* private one of instance i: the one it is constructed with, or its clone
RegIds == 1..(NumInst + 1)
private(t) == t + 1

VARIABLES
    observers,              \* Timeline.observers: reference to a registry
    inheritingObservers,    \* Timeline._inheritingObservers
    parentObservers,        \* Timeline._parentObservers (0 = not set)
    registries,             \* the heap of ObserverCollection objects
    mutated,                \* history: the Timeline changed an observer list
    lastCall,               \* history: the last call made on a Timeline, and how it ended
    registrationPromises,   \* per batch: is the k-th registration promise resolved
    registered,             \* per batch: the instance of the k-th register call
    requests,               \* per batch: the RequestRecords, in push order
    resolveCalls,           \* per batch and record: calls of its resolve
    rejectCalls,            \* per batch and record: calls of its reject
    delivered,              \* per batch and record: value of the first resolve
    deliveryLog,            \* per batch: records in the order they were settled
    flushPc,                \* per batch: position of execute()
    flushes,                \* per batch: the calls of execute() so far
    awaited,                \* per batch: promises handed to Promise.all
    requestsWorkingCopy,    \* per batch: execute's requestsWorkingCopy
    posted,                 \* per batch: the batch requests given to graphPost
    chains                  \* per batch: the reduce/then chains of the chunks

registryVars == <<observers, inheritingObservers, parentObservers, registries, mutated>>
timelineVars == <<registryVars, lastCall>>
queueVars == <<registrationPromises, registered, requests, resolveCalls, rejectCalls, delivered, deliveryLog>>
flushVars == <<flushPc, flushes, awaited, requestsWorkingCopy, posted, chains>>
vars == <<timelineVars, queueVars, flushVars>>

\* ------------------------------------------------------------- observers
Moments == {"send", "error"}

\* an observer value: a plain function, or the closure register() installs
Fn(n) == [kind |-> "fn", b |-> 0, r |-> n]
Interceptor(b, r) == [kind |-> "interceptor", b |-> b, r |-> r]

NoList == [has |-> FALSE, obs |-> <<>>]
ListOf(s) == [has |-> TRUE, obs |-> s]
EmptyRegistry == [m \in Moments |-> NoList]

\* a value that is no function
NotFunc == [kind |-> "value", b |-> 0, r |-> 0]

isFunc(observer) == observer.kind \in {"fn", "interceptor"}

\* mutant: "add" puts the observer in front
addObserver_addInFront(target, moment, observer, addBehavior) ==
    IF ~isFunc(observer) THEN target
    ELSE IF ~target[moment].has
    THEN [target EXCEPT ![moment] = ListOf(<<observer>>)]
    ELSE IF addBehavior = "replace"
    THEN [target EXCEPT ![moment] = ListOf(<<observer>>)]
    ELSE [target EXCEPT ![moment] = ListOf(<<observer>> \o @.obs)]

\* mutant: "replace" keeps the observers that are there
addObserver_replaceKeeps(target, moment, observer, addBehavior) ==
    IF ~isFunc(observer) THEN target
    ELSE IF ~target[moment].has
    THEN [target EXCEPT ![moment] = ListOf(<<observer>>)]
    ELSE IF addBehavior = "prepend"
    THEN [target EXCEPT ![moment] = ListOf(<<observer>> \o @.obs)]
    ELSE [target EXCEPT ![moment] = ListOf(Append(@.obs, observer))]

\* addObserver: the new value of target; target is unchanged when it throws
addObserver(target, moment, observer, addBehavior) ==
    IF ~isFunc(observer) THEN target
    ELSE IF ~target[moment].has
    THEN [target EXCEPT ![moment] = ListOf(<<observer>>)]
    ELSE CASE addBehavior = "add" ->
                [target EXCEPT ![moment] = ListOf(Append(@.obs, observer))]
           [] addBehavior = "prepend" ->
                [target EXCEPT ![moment] = ListOf(<<observer>> \o @.obs)]
           [] addBehavior = "replace" ->
                [target EXCEPT ![moment] = ListOf(<<observer>>)]

\* Timeline.on[p](handler): when inheriting, the registry is kept as the
\* parent and a deep copy of it (a new object) becomes the working registry;
\* then the observer is added
on_add(t, p, handler) ==
    /\ IF inheritingObservers[t]
       THEN /\ parentObservers' = [parentObservers EXCEPT ![t] = observers[t]]
            /\ observers' = [observers EXCEPT ![t] = private(t)]
            /\ inheritingObservers' = [inheritingObservers EXCEPT ![t] = FALSE]
            /\ registries' = [registries EXCEPT ![private(t)] =
                                addObserver(registries[observers[t]], p, handler, "add")]
       ELSE /\ registries' = [registries EXCEPT ![observers[t]] =
                                addObserver(@, p, handler, "add")]
            /\ UNCHANGED <<observers, inheritingObservers, parentObservers>>
    /\ mutated' = [mutated EXCEPT ![t] = @ \/ isFunc(handler)]

\* Timeline.on[p].replace(handler)
on_replace(t, p, handler) ==
    /\ registries' = [registries EXCEPT ![observers[t]] =
                        addObserver(@, p, handler, "replace")]
    /\ mutated' = [mutated EXCEPT ![t] = @ \/ isFunc(handler)]
    /\ UNCHANGED <<observers, inheritingObservers, parentObservers>>

\* Timeline.on[p].prepend(handler)
on_prepend(t, p, handler) ==
    /\ registries' = [registries EXCEPT ![observers[t]] =
                        addObserver(@, p, handler, "prepend")]
    /\ mutated' = [mutated EXCEPT ![t] = @ \/ isFunc(handler)]
    /\ UNCHANGED <<observers, inheritingObservers, parentObservers>>

\* Timeline.clear[p](): empties the list when the registry has one
clear(t, p) ==
    /\ registries' = [registries EXCEPT ![observers[t]] =
                        IF @[p].has THEN [@ EXCEPT ![p] = ListOf(<<>>)] ELSE @]
    /\ mutated' = [mutated EXCEPT ![t] = @ \/ registries[observers[t]][p].has]
    /\ UNCHANGED <<observers, inheritingObservers, parentObservers>>

\* mutant: the flags are reset, the working registry stays the copy
resetObservers_keepsCopy(t) ==
    IF ~inheritingObservers[t] /\ parentObservers[t] # 0
    THEN /\ inheritingObservers' = [inheritingObservers EXCEPT ![t] = TRUE]
         /\ parentObservers' = [parentObservers EXCEPT ![t] = 0]
         /\ mutated' = [mutated EXCEPT ![t] = FALSE]
         /\ UNCHANGED <<observers, registries>>
    ELSE UNCHANGED registryVars

\* Timeline.resetObservers(): the copy is dropped (nothing refers to it any more)
resetObservers(t) ==
    IF ~inheritingObservers[t] /\ parentObservers[t] # 0
    THEN /\ observers' = [observers EXCEPT ![t] = parentObservers[t]]
         /\ inheritingObservers' = [inheritingObservers EXCEPT ![t] = TRUE]
         /\ parentObservers' = [parentObservers EXCEPT ![t] = 0]
         /\ registries' = [registries EXCEPT ![observers[t]] = EmptyRegistry]
         /\ mutated' = [mutated EXCEPT ![t] = FALSE]
    ELSE UNCHANGED registryVars

\* ------------------------------------------------------------------ emit
\* Values passed to and thrown by emit: strings and Errors, each with its
\* text as a sequence of pieces.
Nothing == [kind |-> "undefined", message |-> <<>>]
Str(text) == [kind |-> "string", message |-> text]
Err(text) == [kind |-> "Error", message |-> text]

\* `${value}`: the text of a string, "Error: " and the message of an Error
toString(value) ==
    IF value.kind = "Error" THEN <<"Error: ">> \o value.message ELSE value.message

\* Error(`Unhandled Exception: ${args[0]}`)
Unhandled(arg) == Err(<<"Unhandled Exception: ">> \o toString(arg))

\* what the dispatch function of moment p raises when it raises
RaisedIn(p) == Err(<<"raised in ", p>>)

\* the list emit hands to the dispatch function: the one of the working
\* registry, or an empty one
observersFor(t, p) ==
    IF registries[observers[t]][p].has THEN registries[observers[t]][p].obs ELSE <<>>

\* how a call ends: the emit calls it made (itself and nested ones), the
\* dispatch functions it called, and what it threw
Returned(invoked, dispatched) ==
    [invoked |-> invoked, dispatched |-> dispatched, threw |-> FALSE, thrown |-> Nothing]
Threw(invoked, dispatched, value) ==
    [invoked |-> invoked, dispatched |-> dispatched, threw |-> TRUE, thrown |-> value]

\* mutant: "error" is dispatched like every other moment, observers or not
emit_noUnhandled(t, p, arg, raises) ==
    LET call == [p |-> p, observers |-> observersFor(t, p), arg |-> arg, raised |-> raises[p]]
    IN IF raises[p] THEN Threw(<<[p |-> p, arg |-> arg]>>, <<call>>, RaisedIn(p))
       ELSE Returned(<<[p |-> p, arg |-> arg]>>, <<call>>)

\* mutant: what a dispatch function raises is not caught
emit_noCatch(t, p, arg, raises) ==
    LET call == [p |-> p, observers |-> observersFor(t, p), arg |-> arg, raised |-> raises[p]]
    IN IF p = "error" /\ Len(observersFor(t, p)) < 1
       THEN Threw(<<[p |-> p, arg |-> arg]>>, <<>>, Unhandled(arg))
       ELSE IF raises[p] THEN Threw(<<[p |-> p, arg |-> arg]>>, <<call>>, RaisedIn(p))
       ELSE Returned(<<[p |-> p, arg |-> arg]>>, <<call>>)

\* Timeline.emit[p](arg); raises[q] tells whether the dispatch function of
\* moment q (its observers included) raises when it is called
RECURSIVE emit(_, _, _, _)
emit(t, p, arg, raises) ==
    LET invocation == [p |-> p, arg |-> arg]
        call == [p |-> p, observers |-> observersFor(t, p), arg |-> arg, raised |-> raises[p]]
    IN IF p = "error" /\ Len(observersFor(t, p)) < 1
       THEN Threw(<<invocation>>, <<>>, Unhandled(arg))
       ELSE IF ~raises[p] THEN Returned(<<invocation>>, <<call>>)
       ELSE IF p # "error"
       THEN LET nested == emit(t, "error", RaisedIn(p), raises)
            IN [nested EXCEPT !.invoked = <<invocation>> \o @,
                              !.dispatched = <<call>> \o @]
       ELSE Threw(<<invocation>>, <<call>>, RaisedIn(p))

\* the record of a call on Timeline t: the call, the mode the Timeline was in
\* when it was made, and how it ended
NoCall ==
    [op |-> "none", t |-> 0, p |-> "", arg |-> Nothing, inheriting |-> FALSE,
     invoked |-> <<>>, dispatched |-> <<>>, threw |-> FALSE, thrown |-> Nothing]
Call(op, t, p, arg, end) ==
    [op |-> op, t |-> t, p |-> p, arg |-> arg, inheriting |-> inheritingObservers[t],
     invoked |-> end.invoked, dispatched |-> end.dispatched,
     threw |-> end.threw, thrown |-> end.thrown]

\* the end of on[p](handler), on[p].replace(handler), on[p].prepend(handler)
subscribeEnd(handler) ==
    IF isFunc(handler) THEN Returned(<<>>, <<>>)
    ELSE Threw(<<>>, <<>>, Err(<<"Observers must be functions.">>))

\* ------------------------------------------------------------ the codec
\* A string is a sequence of characters; the characters are the decimal
\* digits 0..9 and one character that is no digit.
Digits == 0..9
NonDigit == Cardinality(Digits)
isDigit(c) == c \in Digits

\* `${n}` of a positive integer: its decimal digits
RECURSIVE numberToString(_)
numberToString(n) ==
    IF n < 10 THEN <<n>> ELSE numberToString(n \div 10) \o <<n % 10>>

\* the longest prefix of digits of a string
RECURSIVE digitPrefix(_)
digitPrefix(str) ==
    IF str = <<>> \/ ~isDigit(Head(str)) THEN <<>>
    ELSE <<Head(str)>> \o digitPrefix(Tail(str))

RECURSIVE digitsValue(_)
digitsValue(ds) ==
    IF ds = <<>> THEN 0
    ELSE 10 * digitsValue(SubSeq(ds, 1, Len(ds) - 1)) + ds[Len(ds)]

\* parseInt(str, 10): NaN when the string does not start with a digit
parseInt(str) ==
    IF digitPrefix(str) = <<>> THEN [nan |-> TRUE, val |-> 0]
    ELSE [nan |-> FALSE, val |-> digitsValue(digitPrefix(str))]

\* formatRequests: one fragment per record of the chunk, id = index + 1.
\* A record is named by its position in requests; op stands for its method and url.
formatRequests(requestsChunk) ==
    [index \in 1..Len(requestsChunk) |->
        [id |-> numberToString(index), op |-> requestsChunk[index]]]

\* the elements of parsedResponses: an empty slot, null, or a Response
Hole == [kind |-> "hole", status |-> 0, body |-> 0]
Null == [kind |-> "null", status |-> 0, body |-> 0]
Response(status, body) == [kind |-> "response", status |-> status, body |-> body]

\* parsedResponses[responseId] = value, for a zero-based responseId: writing
\* past the end leaves empty slots, a NaN or negative key is no element
setElement(array, responseId, value) ==
    IF responseId.nan \/ responseId.val < 0 THEN array
    ELSE IF responseId.val < Len(array)
    THEN [array EXCEPT ![responseId.val + 1] = value]
    ELSE array \o [k \in 1..(responseId.val - Len(array)) |-> Hole] \o <<value>>

\* what one fragment becomes: new Response() for 204 (status 200, no body)
fragmentResponse(response) ==
    IF response.status = 204 THEN Response(200, 0)
    ELSE Response(response.status, response.body)

\* mutant: the results are placed in the order the fragments arrive
RECURSIVE placeResponses_byArrival(_, _, _)
placeResponses_byArrival(parsedResponses, responses, i) ==
    IF i > Len(responses) THEN parsedResponses
    ELSE placeResponses_byArrival(
             [parsedResponses EXCEPT ![i] = fragmentResponse(responses[i])],
             responses, i + 1)

\* the for loop of parseResponse from fragment i on
RECURSIVE placeResponses(_, _, _)
placeResponses(parsedResponses, responses, i) ==
    IF i > Len(responses) THEN parsedResponses
    ELSE LET id == parseInt(responses[i].id)
             responseId == [nan |-> id.nan, val |-> id.val - 1]
         IN placeResponses(
                setElement(parsedResponses, responseId, fragmentResponse(responses[i])),
                responses, i + 1)

\* parseResponse(graphResponse).responses, when graphResponse has no error
parseResponse(graphResponse) ==
    placeResponses([k \in 1..Len(graphResponse.responses) |-> Null],
                   graphResponse.responses, 1)

\* mutant: the elements are visited from the last to the first (reduceRight)
RECURSIVE reduceOrder_right(_, _)
reduceOrder_right(array, from) ==
    IF from > Len(array) THEN <<>>
    ELSE IF array[from] = Hole THEN reduceOrder_right(array, from + 1)
    ELSE reduceOrder_right(array, from + 1) \o <<from - 1>>

\* the zero-based indexes reduce visits: the elements that are no empty slot
RECURSIVE reduceOrder(_, _)
reduceOrder(array, from) ==
    IF from > Len(array) THEN <<>>
    ELSE IF array[from] = Hole THEN reduceOrder(array, from + 1)
    ELSE <<from - 1>> \o reduceOrder(array, from + 1)

\* ------------------------------------------------------- the aggregate call
\* graphPost is the transport: it answers a batch request, raises, or answers
\* with a top-level error.  The answers drawn for a request of n fragments:
\* every order of the n echoed fragments, with at most one status that is not
\* 200; one fragment left out; one fragment whose id starts with no digit.
Orders(n) == {p \in [1..n -> 1..n] : \A i, j \in 1..n : p[i] = p[j] => i = j}

Statuses == {200, 204, 404}

StatusVectors(n) ==
    {[i \in 1..n |-> 200]} \cup
    {[i \in 1..n |-> IF i = k THEN st ELSE 200] : k \in 1..n, st \in Statuses \ {200}}

Echo(batchRequest, p, sv) ==
    [i \in 1..Len(batchRequest) |->
        [id |-> batchRequest[p[i]].id, status |-> sv[p[i]], body |-> batchRequest[p[i]].op]]

InOrder(batchRequest) ==
    Echo(batchRequest, [i \in 1..Len(batchRequest) |-> i],
         [i \in 1..Len(batchRequest) |-> 200])

Without(seq, k) == SubSeq(seq, 1, k - 1) \o SubSeq(seq, k + 1, Len(seq))

EchoResponses(batchRequest) ==
    {Echo(batchRequest, p, sv) :
        p \in Orders(Len(batchRequest)), sv \in StatusVectors(Len(batchRequest))}

PartialResponses(batchRequest) ==
    {Without(InOrder(batchRequest), k) : k \in 1..Len(batchRequest)} \cup
    {[InOrder(batchRequest) EXCEPT ![k].id = <<NonDigit>>] : k \in 1..Len(batchRequest)}

\* is responses one fragment for every id of the request, in any order
IsEcho(batchRequest, responses) ==
    /\ Len(responses) = Len(batchRequest)
    /\ \A i \in 1..Len(batchRequest) :
           \E j \in 1..Len(responses) :
               /\ responses[j].id = batchRequest[i].id
               /\ responses[j].body = batchRequest[i].op

\* every answer drawn for a request
Answers(batchRequest) == EchoResponses(batchRequest) \cup PartialResponses(batchRequest)

\* ---------------------------------------------------------------- the batch
Last(seq) == seq[Len(seq)]

\* the batch request graphPost was last called with (none: no fragments)
InFlight(b) == IF posted[b] = <<>> THEN <<>> ELSE Last(posted[b])

\* mutant: the chunk is one record too long
spliceChunk_offByOne(b, workingCopy) ==
    SubSeq(workingCopy, 1, IF Len(workingCopy) < maxRequests(b) + 1 THEN Len(workingCopy)
                           ELSE maxRequests(b) + 1)

\* requestsWorkingCopy.splice(0, maxRequests): the chunk and what stays
spliceChunk(b, workingCopy) ==
    SubSeq(workingCopy, 1, IF Len(workingCopy) < maxRequests(b) THEN Len(workingCopy)
                           ELSE maxRequests(b))
spliceRest(b, workingCopy) ==
    SubSeq(workingCopy, Len(spliceChunk(b, workingCopy)) + 1, Len(workingCopy))

\* mutant: the first settled registration is enough (Promise.race)
registrationsSettled_any(b) ==
    awaited[b] = 0 \/ \E k \in 1..awaited[b] : registrationPromises[b][k]

\* mutant: Promise.all is fulfilled only for no promises at all
registrationsSettled_none(b) == awaited[b] = 0

\* Promise.all(registrationPromises) of execute is fulfilled
registrationsSettled(b) ==
    \A k \in 1..awaited[b] : registrationPromises[b][k]

\* the observer the "send" moment of instance i hands the request to
sendObserver(i) ==
    LET list == registries[observers[i]]["send"]
    IN IF list.has /\ list.obs # <<>> THEN Head(list.obs) ELSE Fn(0)

\* register(instance): a new registration promise, and the interceptor
\* replaces the instance's "send" observers
Register(b, i) ==
    /\ Len(registrationPromises[b]) < MaxRegs
    /\ registrationPromises' = [registrationPromises EXCEPT ![b] = Append(@, FALSE)]
    /\ registered' = [registered EXCEPT ![b] = Append(@, i)]
    /\ on_replace(i, "send", Interceptor(b, Len(registrationPromises[b]) + 1))
    /\ UNCHANGED <<lastCall, requests, resolveCalls, rejectCalls, delivered, deliveryLog, flushVars>>

\* mutant: a record pushed while execute() drains joins what it drains
Send_joinsFlush(i) ==
    /\ sendObserver(i).kind = "interceptor"
    /\ LET b == sendObserver(i).b
           r == sendObserver(i).r
       IN /\ Len(requests[b]) < MaxOps
          /\ requests' = [requests EXCEPT ![b] = Append(@, [inst |-> i, reg |-> r])]
          /\ resolveCalls' = [resolveCalls EXCEPT ![b] = Append(@, 0)]
          /\ rejectCalls' = [rejectCalls EXCEPT ![b] = Append(@, 0)]
          /\ delivered' = [delivered EXCEPT ![b] = Append(@, Hole)]
          /\ registrationPromises' = [registrationPromises EXCEPT ![b][r] = TRUE]
          /\ requestsWorkingCopy' =
                 [requestsWorkingCopy EXCEPT ![b] =
                     IF flushPc[b] = "awaitPost" THEN Append(@, Len(requests[b]) + 1) ELSE @]
    /\ UNCHANGED <<registered, deliveryLog, timelineVars, flushPc, flushes, awaited, posted, chains>>

\* instance i sends and an interceptor is its "send" observer: the record is
\* pushed and the registration promise of that interceptor resolved
Send(i) ==
    /\ sendObserver(i).kind = "interceptor"
    /\ LET b == sendObserver(i).b
           r == sendObserver(i).r
       IN /\ Len(requests[b]) < MaxOps
          /\ requests' = [requests EXCEPT ![b] = Append(@, [inst |-> i, reg |-> r])]
          /\ resolveCalls' = [resolveCalls EXCEPT ![b] = Append(@, 0)]
          /\ rejectCalls' = [rejectCalls EXCEPT ![b] = Append(@, 0)]
          /\ delivered' = [delivered EXCEPT ![b] = Append(@, Hole)]
          /\ registrationPromises' = [registrationPromises EXCEPT ![b][r] = TRUE]
    /\ UNCHANGED <<registered, deliveryLog, timelineVars, flushVars>>

\* execute() is called: Promise.all takes the promises registered so far
FlushCall(b) ==
    /\ flushPc[b] = "idle"
    /\ flushPc' = [flushPc EXCEPT ![b] = "awaitRegistrations"]
    /\ flushes' = [flushes EXCEPT ![b] = @ + 1]
    /\ awaited' = [awaited EXCEPT ![b] = Len(registrationPromises[b])]
    /\ UNCHANGED <<requestsWorkingCopy, posted, chains, queueVars, timelineVars>>

\* one pass of the while loop up to the await: splice, format, graphPost
postChunk(b, workingCopy) ==
    /\ requestsWorkingCopy' = [requestsWorkingCopy EXCEPT ![b] = spliceRest(b, workingCopy)]
    /\ posted' = [posted EXCEPT ![b] = Append(@, formatRequests(spliceChunk(b, workingCopy)))]
    /\ flushPc' = [flushPc EXCEPT ![b] = "awaitPost"]

\* execute() is called again, after the call before has returned and its
\* callbacks have run
FlushAgain(b) ==
    /\ flushPc[b] = "returned"
    /\ \A c \in 1..Len(chains[b]) : chains[b][c].rejected \/ chains[b][c].todo = <<>>
    /\ flushes[b] < MaxFlushes
    /\ flushPc' = [flushPc EXCEPT ![b] = "awaitRegistrations"]
    /\ flushes' = [flushes EXCEPT ![b] = @ + 1]
    /\ awaited' = [awaited EXCEPT ![b] = Len(registrationPromises[b])]
    /\ UNCHANGED <<requestsWorkingCopy, posted, chains, queueVars, timelineVars>>

\* the registrations have settled and there is nothing to send
FlushEmpty(b) ==
    /\ flushPc[b] = "awaitRegistrations"
    /\ registrationsSettled(b)
    /\ Len(requests[b]) < 1
    /\ flushPc' = [flushPc EXCEPT ![b] = "returned"]
    /\ UNCHANGED <<flushes, awaited, requestsWorkingCopy, posted, chains, queueVars, timelineVars>>

\* mutant: the working copy holds the records that are not settled yet
slice_unsettled(b) ==
    SelectSeq([k \in 1..Len(requests[b]) |-> k],
              LAMBDA k : resolveCalls[b][k] + rejectCalls[b][k] = 0)

\* requests.slice(): the working copy holds every record of the queue
slice(b) == [k \in 1..Len(requests[b]) |-> k]

\* the registrations have settled: working copy, first chunk
FlushDrain(b) ==
    /\ flushPc[b] = "awaitRegistrations"
    /\ registrationsSettled(b)
    /\ Len(requests[b]) >= 1
    /\ postChunk(b, slice(b))
    /\ UNCHANGED <<flushes, awaited, chains, queueVars, timelineVars>>

\* graphPost raises (the transport fails), so execute() throws
TransportRaises(b) ==
    /\ flushPc[b] = "awaitPost"
    /\ flushPc' = [flushPc EXCEPT ![b] = "threwTransport"]
    /\ UNCHANGED <<flushes, awaited, requestsWorkingCopy, posted, chains, queueVars, timelineVars>>

\* the answer has a top-level error: BatchParse throws, so execute() throws
TransportError(b) ==
    /\ flushPc[b] = "awaitPost"
    /\ flushPc' = [flushPc EXCEPT ![b] = "threwBatchError"]
    /\ UNCHANGED <<flushes, awaited, requestsWorkingCopy, posted, chains, queueVars, timelineVars>>

\* the chain reduce builds for a chunk: the indexes left, and whether a
\* callback threw
newChain(batchRequest, responses) ==
    [chunk |-> [k \in 1..Len(batchRequest) |-> batchRequest[k].op],
     raw |-> responses,
     responses |-> parseResponse([responses |-> responses]),
     todo |-> reduceOrder(parseResponse([responses |-> responses]), 1),
     rejected |-> FALSE]

\* graphPost answers: the chain is built and the loop goes on to the next
\* chunk, or execute() returns
TransportResponds(b, responses) ==
    /\ flushPc[b] = "awaitPost"
    /\ chains' = [chains EXCEPT ![b] = Append(@, newChain(Last(posted[b]), responses))]
    /\ IF Len(requestsWorkingCopy[b]) > 0
       THEN postChunk(b, requestsWorkingCopy[b])
       ELSE /\ flushPc' = [flushPc EXCEPT ![b] = "returned"]
            /\ UNCHANGED <<requestsWorkingCopy, posted>>
    /\ UNCHANGED <<flushes, awaited, queueVars, timelineVars>>

\* mutant: a fragment that failed is handed to reject
settleWith_rejectFailed(response) ==
    IF response.kind = "response" /\ response.status \notin 200..299
    THEN "reject" ELSE "resolve"

\* which of resolve and reject the callback ends up calling: resolve does not throw
settleWith(response) == "resolve"

\* the next callback of chain c runs
Deliver(b, c) ==
    /\ c \in 1..Len(chains[b])
    /\ ~chains[b][c].rejected
    /\ chains[b][c].todo # <<>>
    /\ LET chain == chains[b][c]
           index == Head(chain.todo)
       IN IF index >= Len(chain.chunk)
          THEN \* requestsChunk[index] is undefined: the callback throws
               /\ chains' = [chains EXCEPT ![b][c].rejected = TRUE]
               /\ UNCHANGED <<resolveCalls, rejectCalls, delivered, deliveryLog>>
          ELSE LET op == chain.chunk[index + 1]
                   response == chain.responses[index + 1]
               IN /\ chains' = [chains EXCEPT ![b][c].todo = Tail(@)]
                  /\ IF settleWith(response) = "resolve"
                     THEN /\ resolveCalls' = [resolveCalls EXCEPT ![b][op] = @ + 1]
                          /\ delivered' = [delivered EXCEPT ![b][op] =
                                             IF resolveCalls[b][op] + rejectCalls[b][op] = 0
                                             THEN response ELSE @]
                          /\ UNCHANGED rejectCalls
                     ELSE /\ rejectCalls' = [rejectCalls EXCEPT ![b][op] = @ + 1]
                          /\ UNCHANGED <<resolveCalls, delivered>>
                  /\ deliveryLog' = [deliveryLog EXCEPT ![b] = Append(@, op)]
    /\ UNCHANGED <<registrationPromises, registered, requests, flushPc, flushes, awaited,
                   requestsWorkingCopy, posted, timelineVars>>

\* ------------------------------------------------------------ specifications
\* The registry of the object the instances are made from: a "send" observer
\* that transmits, no "error" list.
BaseRegistry == [EmptyRegistry EXCEPT !["send"] = ListOf(<<Fn(1)>>)]

\* Timeline constructor: instance i is given registry 1 (inherits) or none
\* (owns the empty registry private(i))
InitTimelines(inherits) ==
    /\ observers = [i \in Insts |-> IF inherits[i] THEN 1 ELSE private(i)]
    /\ inheritingObservers = inherits
    /\ parentObservers = [i \in Insts |-> 0]
    /\ registries = [k \in RegIds |-> IF k = 1 THEN BaseRegistry ELSE EmptyRegistry]
    /\ mutated = [i \in Insts |-> FALSE]
    /\ lastCall = NoCall

\* createBatch: nothing registered, nothing captured, execute not called
InitBatches ==
    /\ registrationPromises = [b \in Batches |-> <<>>]
    /\ registered = [b \in Batches |-> <<>>]
    /\ requests = [b \in Batches |-> <<>>]
    /\ resolveCalls = [b \in Batches |-> <<>>]
    /\ rejectCalls = [b \in Batches |-> <<>>]
    /\ delivered = [b \in Batches |-> <<>>]
    /\ deliveryLog = [b \in Batches |-> <<>>]
    /\ flushPc = [b \in Batches |-> "idle"]
    /\ flushes = [b \in Batches |-> 0]
    /\ awaited = [b \in Batches |-> 0]
    /\ requestsWorkingCopy = [b \in Batches |-> <<>>]
    /\ posted = [b \in Batches |-> <<>>]
    /\ chains = [b \in Batches |-> <<>>]

\* one batch: its users register instances that all inherit the registry of
\* their parent, or that all own their registry
Init ==
    /\ \E shared \in BOOLEAN : InitTimelines([i \in Insts |-> shared])
    /\ InitBatches

Next ==
    \/ \E i \in Insts : Register(1, i)
    \/ \E i \in Insts : Send(i)
    \/ FlushCall(1)
    \/ FlushEmpty(1)
    \/ FlushDrain(1)
    \/ TransportRaises(1)
    \/ TransportError(1)
    \/ \E responses \in {InOrder(InFlight(1))} : TransportResponds(1, responses)
    \/ \E c \in 1..Len(chains[1]) : Deliver(1, c)

Spec == Init /\ [][Next]_vars

\* One batch whose transport always answers, and the scheduling of the
\* continuations of execute(): once the registration promises are all
\* resolved execute() goes on, and once graphPost is called it answers.  The
\* instances are registered before execute() is called and send up to one
\* chunk.
NextLive ==
    \/ \E i \in Insts : flushPc[1] = "idle" /\ Register(1, i)
    \/ \E i \in Insts : Len(requests[1]) < SmallChunk /\ Send(i)
    \/ FlushCall(1)
    \/ FlushEmpty(1)
    \/ FlushDrain(1)
    \/ \E responses \in {InOrder(InFlight(1))} : TransportResponds(1, responses)
    \/ \E c \in 1..Len(chains[1]) : Deliver(1, c)

SpecLive ==
    /\ Init
    /\ [][NextLive]_vars
    /\ WF_vars(FlushEmpty(1))
    /\ WF_vars(FlushDrain(1))
    /\ WF_vars(\E responses \in {InOrder(InFlight(1))} : TransportResponds(1, responses))

\* Two batches, each with its own instance: instance b is registered once
\* with batch b, the instances send up to SmallChunk requests to a batch, and
\* both batches are flushed; the transport answers every fragment in the
\* order sent.
NextTwo ==
    \/ \E b \in Batches : registrationPromises[b] = <<>> /\ Register(b, b)
    \/ \E i \in Batches : (\A b \in Batches : Len(requests[b]) < SmallChunk) /\ Send(i)
    \/ \E b \in Batches : FlushCall(b)
    \/ \E b \in Batches : FlushEmpty(b)
    \/ \E b \in Batches : FlushDrain(b)
    \/ \E b \in Batches : \E responses \in {InOrder(InFlight(b))} : TransportResponds(b, responses)
    \/ \E b \in Batches : \E c \in 1..Len(chains[b]) : Deliver(b, c)

SpecTwo == Init /\ [][NextTwo]_vars

\* The states of Spec in which instance i, owning its registry, was registered
\* with batch q and has then sent n requests, and execute() is not yet called.
InitFilled(q, i, n) ==
    /\ observers = [t \in Insts |-> private(t)]
    /\ inheritingObservers = [t \in Insts |-> FALSE]
    /\ parentObservers = [t \in Insts |-> 0]
    /\ registries = [k \in RegIds |->
            IF k = 1 THEN BaseRegistry
            ELSE IF k = private(i)
            THEN addObserver(EmptyRegistry, "send", Interceptor(q, 1), "replace")
            ELSE EmptyRegistry]
    /\ mutated = [t \in Insts |-> t = i]
    /\ lastCall = NoCall
    /\ registrationPromises = [b \in Batches |-> IF b = q THEN <<TRUE>> ELSE <<>>]
    /\ registered = [b \in Batches |-> IF b = q THEN <<i>> ELSE <<>>]
    /\ requests = [b \in Batches |->
            IF b = q THEN [k \in 1..n |-> [inst |-> i, reg |-> 1]] ELSE <<>>]
    /\ resolveCalls = [b \in Batches |-> IF b = q THEN [k \in 1..n |-> 0] ELSE <<>>]
    /\ rejectCalls = [b \in Batches |-> IF b = q THEN [k \in 1..n |-> 0] ELSE <<>>]
    /\ delivered = [b \in Batches |-> IF b = q THEN [k \in 1..n |-> Hole] ELSE <<>>]
    /\ deliveryLog = [b \in Batches |-> <<>>]
    /\ flushPc = [b \in Batches |-> "idle"]
    /\ flushes = [b \in Batches |-> 0]
    /\ awaited = [b \in Batches |-> 0]
    /\ requestsWorkingCopy = [b \in Batches |-> <<>>]
    /\ posted = [b \in Batches |-> <<>>]
    /\ chains = [b \in Batches |-> <<>>]

\* Draining a queue: batch 1 holds 1..MaxDrain records, execute() is called
\* and the transport gives any of the answers.
InitDrain == \E n \in 1..MaxDrain : InitFilled(1, 1, n)

NextDrain ==
    \/ FlushCall(1)
    \/ FlushDrain(1)
    \/ TransportRaises(1)
    \/ TransportError(1)
    \/ \E responses \in Answers(InFlight(1)) : TransportResponds(1, responses)
    \/ \E c \in 1..Len(chains[1]) : Deliver(1, c)

SpecDrain == InitDrain /\ [][NextDrain]_vars

\* Flushing again: batch 1 holds 1..MaxDrain records, execute() is called, and
\* called again after it has returned and its callbacks have run; the
\* transport answers every fragment in the order sent.
NextAgain ==
    \/ FlushCall(1)
    \/ FlushAgain(1)
    \/ FlushDrain(1)
    \/ \E responses \in {InOrder(InFlight(1))} : TransportResponds(1, responses)
    \/ \E c \in 1..Len(chains[1]) : Deliver(1, c)

SpecAgain == InitDrain /\ [][NextAgain]_vars

\* The round trip of the codec: batch 2 (large chunks) holds up to one record
\* more than a chunk; the transport echoes one fragment per request id with
\* status 200, in the order sent, rotated, or reversed.
Rotation(n, k) == [i \in 1..n |-> ((i + k - 1) % n) + 1]
Reversed(p) == [i \in 1..Len(p) |-> p[Len(p) + 1 - i]]
CodecOrders(n) ==
    {Rotation(n, k) : k \in 0..(n - 1)} \cup {Reversed(Rotation(n, k)) : k \in 0..(n - 1)}
CodecAnswers(batchRequest) ==
    {Echo(batchRequest, p, [i \in 1..Len(batchRequest) |-> 200]) :
        p \in CodecOrders(Len(batchRequest))}

InitCodec == \E n \in 1..(LargeChunk + 1) : InitFilled(2, 1, n)

NextCodec ==
    \/ FlushCall(2)
    \/ FlushDrain(2)
    \/ \E responses \in CodecAnswers(InFlight(2)) : TransportResponds(2, responses)
    \/ \E c \in 1..Len(chains[2]) : Deliver(2, c)

SpecCodec == InitCodec /\ [][NextCodec]_vars

\* Timelines alone: each instance inherits registry 1 or owns its registry,
\* and observers are subscribed, cleared and reset in any order.  The calls
\* are made for one moment; the "send" list of registry 1 is there to be
\* copied and inherited.
Handlers == {Fn(1), Fn(2)}
\* what a caller may hand to on[p]: a handler, or a value that is no function
Values == Handlers \cup {NotFunc}
Subscribed == {"error"}

\* the list of moment p of the registry instance t works on has room
HasRoom(t, p) == Len(registries[observers[t]][p].obs) < MaxObservers

On(t, p, handler) ==
    /\ HasRoom(t, p)
    /\ on_add(t, p, handler)
    /\ lastCall' = Call("on", t, p, Nothing, subscribeEnd(handler))
    /\ UNCHANGED <<queueVars, flushVars>>

OnReplace(t, p, handler) ==
    /\ on_replace(t, p, handler)
    /\ lastCall' = Call("replace", t, p, Nothing, subscribeEnd(handler))
    /\ UNCHANGED <<queueVars, flushVars>>

OnPrepend(t, p, handler) ==
    /\ HasRoom(t, p)
    /\ on_prepend(t, p, handler)
    /\ lastCall' = Call("prepend", t, p, Nothing, subscribeEnd(handler))
    /\ UNCHANGED <<queueVars, flushVars>>

Clear(t, p) ==
    /\ clear(t, p)
    /\ lastCall' = Call("clear", t, p, Nothing, Returned(<<>>, <<>>))
    /\ UNCHANGED <<queueVars, flushVars>>

ResetObservers(t) ==
    /\ resetObservers(t)
    /\ lastCall' = Call("resetObservers", t, "", Nothing, Returned(<<>>, <<>>))
    /\ UNCHANGED <<queueVars, flushVars>>

\* emit[p](arg) on Timeline t
Emit(t, p, arg, raises) ==
    /\ lastCall' = Call("emit", t, p, arg, emit(t, p, arg, raises))
    /\ UNCHANGED <<registryVars, queueVars, flushVars>>

InitTimeline ==
    /\ \E inherits \in [Insts -> BOOLEAN] : InitTimelines(inherits)
    /\ InitBatches

NextTimeline ==
    \/ \E t \in Insts, p \in Subscribed, handler \in Values : On(t, p, handler)
    \/ \E t \in Insts, p \in Subscribed, handler \in Values : OnReplace(t, p, handler)
    \/ \E t \in Insts, p \in Subscribed, handler \in Values : OnPrepend(t, p, handler)
    \/ \E t \in Insts, p \in Subscribed : Clear(t, p)
    \/ \E t \in Insts : ResetObservers(t)

SpecTimeline == InitTimeline /\ [][NextTimeline]_vars

\* One Timeline, built on registry 1 or on no registry: its user subscribes
\* handlers to its moments in the three modes, clears the moments and resets
\* the Timeline.
NextSubscribe ==
    \/ \E p \in Moments, handler \in Handlers : On(1, p, handler)
    \/ \E p \in Moments, handler \in Handlers : OnReplace(1, p, handler)
    \/ \E p \in Moments, handler \in Handlers : OnPrepend(1, p, handler)
    \/ \E p \in Moments : Clear(1, p)
    \/ ResetObservers(1)

SpecSubscribe == Init /\ [][NextSubscribe]_vars

\* One Timeline, built on registry 1 or on no registry: handlers are added to
\* its moments, the moments are cleared, and they are emitted with a string
\* or an Error; the dispatch function of a moment returns or raises.
Args == {Str(<<"a">>), Err(<<"a">>)}

NextEmit ==
    \/ \E p \in Moments, handler \in Handlers : On(1, p, handler)
    \/ \E p \in Moments : Clear(1, p)
    \/ \E p \in Moments, arg \in Args, raises \in [Moments -> BOOLEAN] :
           Emit(1, p, arg, raises)

SpecEmit == Init /\ [][NextEmit]_vars

\* ------------------------------------------------------------------ claims
Calls(b, op) == resolveCalls[b][op] + rejectCalls[b][op]
Settled(b, op) == Calls(b, op) >= 1
Range(seq) == {seq[k] : k \in 1..Len(seq)}
OpsOf(batchRequest) == {batchRequest[k].op : k \in 1..Len(batchRequest)}

\* the records execute() took into its working copy
Drained(b) ==
    UNION {OpsOf(posted[b][k]) : k \in 1..Len(posted[b])} \cup Range(requestsWorkingCopy[b])

FlushThrew(b) == flushPc[b] \in {"threwTransport", "threwBatchError"}
ChainOver(chain) == chain.rejected \/ chain.todo = <<>>

\* execute() has returned or thrown and no callback of it is left to run
FlushOver(b) ==
    /\ flushPc[b] = "returned" \/ FlushThrew(b)
    /\ \A c \in 1..Len(chains[b]) : ChainOver(chains[b][c])

\* C1: whatever the transport did for each chunk, once the flush is over
\* every record it drained has had exactly one call of its resolve or its
\* reject, and never more than one before that.
C1_ExactlyOneSettle ==
    \A b \in Batches :
        /\ \A op \in Drained(b) : Calls(b, op) <= 1
        /\ FlushOver(b) => \A op \in Drained(b) : Calls(b, op) = 1

CeilDiv(n, m) == (n + m - 1) \div m
Min(x, y) == IF x < y THEN x ELSE y

\* C2: the k-th batch request carries the records at positions
\* (k-1)*M+1 .. min(k*M, N) in order, and a flush of N >= 1 records in which
\* no call failed has made exactly ceil(N/M) calls.
C2_Chunking ==
    \A b \in Batches :
        LET N == Len(requests[b])
            M == maxRequests(b)
        IN /\ \A k \in 1..Len(posted[b]) :
                  [j \in 1..Len(posted[b][k]) |-> posted[b][k][j].op] =
                      [j \in 1..(Min(k * M, N) - (k - 1) * M) |-> (k - 1) * M + j]
           /\ Len(posted[b]) <= CeilDiv(N, M)
           /\ (flushPc[b] = "returned" /\ N >= 1) => Len(posted[b]) = CeilDiv(N, M)

\* C2 witness: five records went out as three requests, the last one short
C2_Witness ==
    /\ flushPc[1] = "returned"
    /\ Len(posted[1]) >= 3
    /\ Len(Last(posted[1])) < maxRequests(1)

\* C3: while the call for a chunk is in flight every record of the chunks
\* before it is settled, and a record is settled only after every record
\* registered before it.
C3_ChunksInSequence ==
    \A b \in Batches :
        /\ flushPc[b] = "awaitPost" =>
               \A k \in 1..(Len(posted[b]) - 1) : \A op \in OpsOf(posted[b][k]) : Settled(b, op)
        /\ \A op \in 1..Len(requests[b]) :
               Settled(b, op) => \A before \in 1..(op - 1) : Settled(b, before)

\* the chain of the chunk a record is in
InSameChunk(b, op1, op2) ==
    \E c \in 1..Len(chains[b]) : {op1, op2} \subseteq Range(chains[b][c].chunk)

\* C4: the deliveries of one chunk happen in ascending registration order,
\* each record at most once.
C4_AscendingDelivery ==
    \A b \in Batches :
        \A x, y \in 1..Len(deliveryLog[b]) :
            (x < y /\ InSameChunk(b, deliveryLog[b][x], deliveryLog[b][y]))
                => deliveryLog[b][x] < deliveryLog[b][y]

\* C4 witness: a chunk of two or more records, answered in another order
\* than it was sent, has been delivered completely
C4_Witness ==
    \E c \in 1..Len(chains[1]) :
        /\ Len(chains[1][c].chunk) >= 2
        /\ IsEcho(formatRequests(chains[1][c].chunk), chains[1][c].raw)
        /\ chains[1][c].raw[1].body # chains[1][c].chunk[1]
        /\ chains[1][c].todo = <<>>
        /\ \A op \in Range(chains[1][c].chunk) : Settled(1, op)

\* C5: when the call for a chunk raised or its answer had a top-level error,
\* every record of the chunk has had its reject called and none its resolve.
C5_ChunkFailureRejects ==
    \A b \in Batches :
        FlushThrew(b) => \A op \in OpsOf(Last(posted[b])) :
                        rejectCalls[b][op] >= 1 /\ resolveCalls[b][op] = 0

\* a chunk whose answer has one fragment for every request id, exactly one
\* of them with a status that is not 2xx, and whose callbacks have all run
IsSuccess(status) == status \in 200..299
FailedFragments(chain) ==
    {j \in 1..Len(chain.raw) : ~IsSuccess(chain.raw[j].status)}
OneItemFailed(chain) ==
    /\ IsEcho(formatRequests(chain.chunk), chain.raw)
    /\ Cardinality(FailedFragments(chain)) = 1
    /\ chain.todo = <<>>
    /\ ~chain.rejected

ResolvedWithOwn(b, chain, j) ==
    /\ resolveCalls[b][chain.raw[j].body] = 1
    /\ rejectCalls[b][chain.raw[j].body] = 0
    /\ delivered[b][chain.raw[j].body] = fragmentResponse(chain.raw[j])

FragmentWithId(responses, n) ==
    CHOOSE j \in 1..Len(responses) : parseInt(responses[j].id) = [nan |-> FALSE, val |-> n]

\* C7: the fragment sent for the record at zero-based chunk position i has the
\* id i+1, in every chunk; the fragment answered with id k is decoded to
\* result position k-1; and the record at position i is resolved with the
\* result of the answered fragment of id i+1, which answers that record.
C7_RoundTrip ==
    \A b \in Batches :
        /\ \A k \in 1..Len(posted[b]) : \A i \in 0..(Len(posted[b][k]) - 1) :
               /\ digitPrefix(posted[b][k][i + 1].id) = posted[b][k][i + 1].id
               /\ parseInt(posted[b][k][i + 1].id) = [nan |-> FALSE, val |-> i + 1]
        /\ \A c \in 1..Len(chains[b]) :
               LET chain == chains[b][c]
               IN IsEcho(formatRequests(chain.chunk), chain.raw) =>
                     /\ Len(chain.responses) = Len(chain.chunk)
                     /\ \A k \in 1..Len(chain.chunk) :
                            chain.responses[k] =
                                fragmentResponse(chain.raw[FragmentWithId(chain.raw, k)])
                     /\ \A i \in 0..(Len(chain.chunk) - 1) :
                            Settled(b, chain.chunk[i + 1]) =>
                                /\ resolveCalls[b][chain.chunk[i + 1]] = 1
                                /\ delivered[b][chain.chunk[i + 1]] =
                                       fragmentResponse(chain.raw[FragmentWithId(chain.raw, i + 1)])
                                /\ chain.raw[FragmentWithId(chain.raw, i + 1)].body =
                                       chain.chunk[i + 1]

\* C7 witness: a chunk with ids of two digits, answered in another order than
\* sent, has been delivered, and a second chunk has been sent
C7_Witness ==
    /\ Len(posted[2]) >= 2
    /\ \E c \in 1..Len(chains[2]) :
           /\ Len(chains[2][c].chunk) >= 10
           /\ chains[2][c].raw[1].body # chains[2][c].chunk[1]
           /\ chains[2][c].todo = <<>>
           /\ \A op \in Range(chains[2][c].chunk) : Settled(2, op)

\* the flush of batch b leaves its wait for the registrations in this step
StartsDraining(b) ==
    flushPc[b] = "awaitRegistrations" /\ flushPc'[b] # "awaitRegistrations"

\* the interceptor of the r-th register call has appended a record
Captured(b, r) == \E k \in 1..Len(requests[b]) : requests[b][k].reg = r

\* C8 as stated: when the flush starts draining, the interceptor of every
\* register call made so far has appended a record.
C8_AllRegisteredCaptured ==
    [][\A b \in Batches :
          StartsDraining(b) =>
              \A r \in 1..Len(registrationPromises[b]) : Captured(b, r)]_vars

\* C8 amended: when the flush starts draining, the interceptor of every
\* register call made before execute() was called has appended a record.
C8_RegisteredBeforeFlushCaptured ==
    [][\A b \in Batches :
          StartsDraining(b) =>
              \A r \in 1..awaited[b] : Captured(b, r)]_vars

\* C8 witness: register was called twice before the flush was called, and
\* the flush has started draining
C8_Witness ==
    /\ awaited[1] >= 2
    /\ flushPc[1] = "awaitPost"

\* C9: when execute() returns, every record it drained is settled.
C9_SettledAtReturn ==
    \A b \in Batches :
        flushPc[b] = "returned" => \A op \in Drained(b) : Settled(b, op)

\* C10: the first call of an inheriting Timeline that changes an observer list
\* makes it owning, stores the registry it had as the parent, and leaves
\* that registry as it was.
C10_CopyOnFirstWrite ==
    [][\A t \in Insts :
          (inheritingObservers[t] /\ ~mutated[t] /\ mutated'[t]) =>
              /\ ~inheritingObservers'[t]
              /\ parentObservers'[t] = observers[t]
              /\ observers'[t] # observers[t]
              /\ registries'[observers[t]] = registries[observers[t]]]_vars

\* C11: a Timeline that has changed an observer list works on a registry
\* that is neither the registry the Timelines were constructed from nor the
\* working registry of any other Timeline.
C11_MutationsIsolated ==
    \A t \in Insts :
        mutated[t] =>
            /\ observers[t] # 1
            /\ \A u \in Insts \ {t} : observers[u] # observers[t]

\* C12: emit of "error" on a Timeline whose "error" list is absent or empty
\* throws an Error whose message is "Unhandled Exception: " and the text of
\* the argument, and calls no dispatch function (so no observer); emit of
\* another moment with no observers calls its dispatch function with the
\* empty list and throws only when a dispatch function raised.
C12_UnhandledErrorRaises ==
    (lastCall.op = "emit" /\ observersFor(lastCall.t, lastCall.p) = <<>>) =>
        IF lastCall.p = "error"
        THEN /\ lastCall.threw
             /\ lastCall.thrown = Unhandled(lastCall.arg)
             /\ lastCall.dispatched = <<>>
        ELSE /\ lastCall.dispatched # <<>>
             /\ lastCall.dispatched[1].p = lastCall.p
             /\ lastCall.dispatched[1].observers = <<>>
             /\ lastCall.threw => lastCall.dispatched[1].raised

\* C12 witness: "error" was emitted with an Error on a Timeline whose "error"
\* list had been emptied by clear, and the call threw
C12_Witness ==
    /\ lastCall.op = "emit"
    /\ lastCall.p = "error"
    /\ lastCall.arg.kind = "Error"
    /\ registries[observers[lastCall.t]]["error"].has
    /\ registries[observers[lastCall.t]]["error"].obs = <<>>
    /\ lastCall.threw

\* C13: when the dispatch function of a moment other than "error" raises,
\* emit makes exactly one nested emit of "error" with the raised value; when
\* the dispatch function of "error" raises, the value is thrown out of emit
\* and nothing is emitted after it; so one emit makes at most one nested
\* emit, and that one is of "error".
C13_RerouteOnce ==
    lastCall.op = "emit" =>
        /\ lastCall.invoked # <<>>
        /\ lastCall.invoked[1] = [p |-> lastCall.p, arg |-> lastCall.arg]
        /\ Len(lastCall.invoked) <= 2
        /\ Len(lastCall.invoked) = 2 => lastCall.p # "error" /\ lastCall.invoked[2].p = "error"
        /\ \A k \in 1..Len(lastCall.dispatched) :
               LET call == lastCall.dispatched[k]
               IN /\ (call.raised /\ call.p # "error") =>
                         /\ k = 1
                         /\ Len(lastCall.invoked) = 2
                         /\ lastCall.invoked[2] = [p |-> "error", arg |-> RaisedIn(call.p)]
                  /\ (call.raised /\ call.p = "error") =>
                         /\ k = Len(lastCall.dispatched)
                         /\ lastCall.threw
                         /\ lastCall.thrown = RaisedIn("error")
                  /\ (~call.raised /\ k = 1) =>
                         /\ Len(lastCall.invoked) = 1
                         /\ ~lastCall.threw

\* C13 witness: the dispatch function of "send" raised, "error" was emitted
\* with the raised value, its dispatch function raised too, and emit threw
C13_Witness ==
    /\ lastCall.op = "emit"
    /\ lastCall.p = "send"
    /\ Len(lastCall.dispatched) = 2
    /\ lastCall.dispatched[2].raised
    /\ lastCall.dispatched[2].arg = RaisedIn("send")
    /\ lastCall.thrown = RaisedIn("error")

\* the observers of moment p in a registry (none when it has no list)
listOf(registry, p) == IF registry[p].has THEN registry[p].obs ELSE <<>>

\* C14: resetObservers on an owning Timeline with a stored parent registry
\* makes that registry, left as it is, the working registry and the Timeline
\* inheriting, so that the list of every moment is the parent's list; on a
\* Timeline that is inheriting or has no stored parent it changes no
\* Timeline and no registry.
C14_ResetRestoresParent ==
    [][\A t \in Insts :
          (lastCall'.op = "resetObservers" /\ ResetObservers(t)) =>
              IF ~inheritingObservers[t] /\ parentObservers[t] # 0
              THEN /\ observers'[t] = parentObservers[t]
                   /\ inheritingObservers'[t]
                   /\ registries'[parentObservers[t]] = registries[parentObservers[t]]
                   /\ \A p \in Moments :
                          listOf(registries'[observers'[t]], p) =
                              listOf(registries[parentObservers[t]], p)
              ELSE UNCHANGED <<observers, inheritingObservers, parentObservers, registries>>]_vars

\* C14 witness: resetObservers was called on an owning Timeline, which now
\* inherits and works on registry 1 again
C14_Witness ==
    /\ lastCall.op = "resetObservers"
    /\ ~lastCall.inheriting
    /\ inheritingObservers[lastCall.t]
    /\ observers[lastCall.t] = 1
    /\ registries[1]["send"] = ListOf(<<Fn(1)>>)

\* C15: on[p](handler) leaves the list of p as it was with the handler added
\* at its end, and emit hands the dispatch function of the moment the list of
\* the working registry, in the order of the list.
C15_AppendOrder ==
    [][/\ \A t \in Insts, p \in Moments, handler \in Handlers :
             (lastCall'.op = "on" /\ On(t, p, handler)) =>
                 listOf(registries'[observers'[t]], p) =
                     Append(listOf(registries[observers[t]], p), handler)
       /\ (lastCall'.op = "emit" /\ lastCall'.dispatched # <<>>) =>
             lastCall'.dispatched[1].observers =
                 listOf(registries[observers[lastCall'.t]], lastCall'.p)]_vars

\* C15 witness: a moment of a Timeline's own registry with two different
\* handlers has been emitted, and its dispatch function got both
C15_Witness ==
    /\ lastCall.op = "emit"
    /\ lastCall.p = "error"
    /\ lastCall.dispatched # <<>>
    /\ lastCall.dispatched[1].observers = <<Fn(2), Fn(1)>>
    /\ registries[1]["error"] = NoList

\* C16: on[p].prepend(handler) leaves the list of p as it was with the handler
\* put in front; on[p].replace(handler) leaves the list with the handler
\* alone; and on a moment without a list every mode leaves the list with the
\* handler alone.
C16_PrependReplace ==
    [][\A t \in Insts, p \in Moments, handler \in Handlers :
          /\ (lastCall'.op = "prepend" /\ OnPrepend(t, p, handler)) =>
                 listOf(registries'[observers'[t]], p) =
                     <<handler>> \o listOf(registries[observers[t]], p)
          /\ (lastCall'.op = "replace" /\ OnReplace(t, p, handler)) =>
                 listOf(registries'[observers'[t]], p) = <<handler>>
          /\ (/\ ~registries[observers[t]][p].has
              /\ lastCall'.op \in {"on", "prepend", "replace"}
              /\ On(t, p, handler) \/ OnPrepend(t, p, handler) \/ OnReplace(t, p, handler)) =>
                 registries'[observers'[t]][p] = ListOf(<<handler>>)]_vars

\* C16 witness: a handler has been put in front of the other handler
C16_Witness ==
    /\ lastCall.op = "prepend"
    /\ listOf(registries[observers[lastCall.t]], lastCall.p) = <<Fn(2), Fn(1)>>

\* C17: with instance b registered with batch b only, every record in the
\* queue of a batch was sent by the instance registered with that batch (so it
\* is transmitted and settled by that batch alone), whether the instances
\* inherit one registry or own theirs.
C17_QueuesIndependent ==
    \A b \in Batches : \A k \in 1..Len(requests[b]) :
        registrationPromises[requests[b][k].inst] # <<>> => requests[b][k].inst = b

\* C18: when the call for a chunk raised or its answer had a top-level error
\* and the callbacks have run, every record the flush drained that is not in
\* that chunk has been transmitted and settled.
C18_FailureConfined ==
    \A b \in Batches :
        (FlushThrew(b) /\ FlushOver(b)) =>
            \A op \in Drained(b) \ OpsOf(Last(posted[b])) :
                /\ \E k \in 1..Len(posted[b]) : op \in OpsOf(posted[b][k])
                /\ Settled(b, op)

\* the fragments of an answer whose id names a record of the chunk
UsableFragments(chain) ==
    {j \in 1..Len(chain.raw) :
        /\ ~parseInt(chain.raw[j].id).nan
        /\ parseInt(chain.raw[j].id).val \in 1..Len(chain.chunk)}

\* C19: the decoded list of every answer has one position for every record
\* of the chunk and the fragment of id k at position k-1, also when a
\* fragment is missing or has an id without digits; when the callbacks of the
\* chunk have run every record of the chunk is settled; and a record that
\* was handed a Response was handed the one of the fragment that answers it.
C19_DecodeSizedToChunk ==
    \A b \in Batches : \A c \in 1..Len(chains[b]) :
        LET chain == chains[b][c]
        IN /\ Len(chain.responses) = Len(chain.chunk)
           /\ \A j \in UsableFragments(chain) :
                  /\ parseInt(chain.raw[j].id).val <= Len(chain.responses)
                  /\ chain.responses[parseInt(chain.raw[j].id).val] =
                         fragmentResponse(chain.raw[j])
           /\ ChainOver(chain) => \A op \in Range(chain.chunk) : Settled(b, op)
           /\ \A op \in Range(chain.chunk) :
                  (Settled(b, op) /\ delivered[b][op].kind = "response") =>
                      \E j \in 1..Len(chain.raw) :
                          /\ chain.raw[j].body = op
                          /\ delivered[b][op] = fragmentResponse(chain.raw[j])

\* C20: a subscribe call, in any mode, with a value that is no function
\* throws and leaves the Timeline's mode, working registry and stored parent
\* and every Timeline's lists as they were.
C20_FailedSubscribeChangesNothing ==
    [][\A t \in Insts, p \in Moments :
          (On(t, p, NotFunc) \/ OnReplace(t, p, NotFunc) \/ OnPrepend(t, p, NotFunc)) =>
              /\ lastCall'.threw
              /\ observers'[t] = observers[t]
              /\ inheritingObservers'[t] = inheritingObservers[t]
              /\ parentObservers'[t] = parentObservers[t]
              /\ \A u \in Insts, q \in Moments :
                     listOf(registries'[observers'[u]], q) =
                         listOf(registries[observers[u]], q)]_vars

\* C21: register(instance) leaves the "send" list of the instance with the
\* interceptor alone, and leaves as they were the other lists of the instance,
\* the lists of every other Timeline, and the registry the instance inherits.
C21_RegisterChangesOwnSendOnly ==
    [][\A b \in Batches, i \in Insts :
          (Len(registrationPromises'[b]) > Len(registrationPromises[b]) /\ Register(b, i)) =>
              /\ listOf(registries'[observers'[i]], "send") =
                     <<Interceptor(b, Len(registrationPromises'[b]))>>
              /\ \A p \in Moments \ {"send"} :
                     listOf(registries'[observers'[i]], p) = listOf(registries[observers[i]], p)
              /\ \A u \in Insts \ {i}, p \in Moments :
                     listOf(registries'[observers'[u]], p) = listOf(registries[observers[u]], p)
              /\ inheritingObservers[i] => registries'[observers[i]] = registries[observers[i]]]_vars

\* the instance has sent a request that batch b captured
InstanceSent(b, i) == \E k \in 1..Len(requests[b]) : requests[b][k].inst = i

\* the first execute() of batch b waits for the registrations
Waiting(b) == flushPc[b] = "awaitRegistrations" /\ flushes[b] = 1

\* C22 as stated: while execute() waits nothing is transmitted or settled; it
\* gets past the wait only if every instance registered before it was called
\* has sent; and once all of these have sent it returns.
C22_CompletesIffInstancesSent ==
    /\ [](\A b \in Batches :
            Waiting(b) => posted[b] = <<>> /\ \A op \in 1..Len(requests[b]) : Calls(b, op) = 0)
    /\ [](\A b \in Batches :
            flushPc[b] \in {"awaitPost", "returned"} =>
                \A r \in 1..awaited[b] : InstanceSent(b, registered[b][r]))
    /\ \A b \in Batches :
            (Waiting(b) /\ \A r \in 1..awaited[b] : InstanceSent(b, registered[b][r]))
                ~> (flushPc[b] = "returned")

\* C22 amended: while execute() waits nothing is transmitted or settled; it
\* gets past the wait only if the interceptor of every register call made
\* before it was called has been invoked; and once all of these have been
\* invoked it returns.
C22_CompletesIffInterceptorsInvoked ==
    /\ [](\A b \in Batches :
            Waiting(b) => posted[b] = <<>> /\ \A op \in 1..Len(requests[b]) : Calls(b, op) = 0)
    /\ [](\A b \in Batches :
            flushPc[b] \in {"awaitPost", "returned"} =>
                \A r \in 1..awaited[b] : Captured(b, r))
    /\ \A b \in Batches :
            (Waiting(b) /\ \A r \in 1..awaited[b] : Captured(b, r))
                ~> (flushPc[b] = "returned")

\* C22 witness: execute() was called after two register calls, both
\* interceptors have been invoked, and it has transmitted and returned
C22_Witness ==
    /\ awaited[1] >= 2
    /\ \A r \in 1..awaited[1] : Captured(1, r)
    /\ posted[1] # <<>>
    /\ flushPc[1] = "returned"

\* execute() of batch b has taken its working copy of the queue
PastCopy(b) == flushPc[b] \in {"awaitPost", "returned", "threwTransport", "threwBatchError"}

\* C23: once execute() has taken its working copy, the records it drains stay
\* the same; a record that is pushed then is appended to the queue and is
\* none of them; and a record that is none of them is in no batch request and
\* has had neither its resolve nor its reject called.
C23_LateSendNotFlushed ==
    [][\A b \in Batches :
          PastCopy(b) =>
              /\ Drained(b)' = Drained(b)
              /\ Len(requests'[b]) > Len(requests[b]) =>
                     /\ requests'[b] = Append(requests[b], Last(requests'[b]))
                     /\ Len(requests'[b]) \notin Drained(b)'
              /\ \A op \in (1..Len(requests'[b])) \ Drained(b)' :
                     /\ resolveCalls'[b][op] = 0
                     /\ rejectCalls'[b][op] = 0
                     /\ \A k \in 1..Len(posted'[b]) : op \notin OpsOf(posted'[b][k])]_vars

\* C23 witness: a record was pushed after execute() had taken its working
\* copy of a queue that was not empty; execute() has returned and its
\* callbacks have run
C23_Witness ==
    /\ FlushOver(1)
    /\ flushPc[1] = "returned"
    /\ Drained(1) # {}
    /\ \E op \in 1..Len(requests[1]) : op \notin Drained(1) /\ Calls(1, op) = 0

\* the batch requests that carry record op
PostedIn(b, op) == {k \in 1..Len(posted[b]) : op \in OpsOf(posted[b][k])}

\* when execute() has returned and its callbacks have run, every record of
\* the queue has been transmitted and resolved once for every call of execute()
FlushedEveryTime(b) ==
    (flushPc[b] = "returned" /\ FlushOver(b)) =>
        \A op \in 1..Len(requests[b]) :
            /\ Cardinality(PostedIn(b, op)) = flushes[b]
            /\ resolveCalls[b][op] = flushes[b]
            /\ rejectCalls[b][op] = 0

\* C24: no step of a flush changes the queue, and when a flush called after
\* the one before had settled is over, every record of the queue has been
\* transmitted again and its resolve called again.
C24_SecondFlushRepeats ==
    [][\A b \in Batches : requests'[b] = requests[b] /\ FlushedEveryTime(b)']_vars

\* C24 witness: a queue of two chunks has been flushed twice
C24_Witness ==
    /\ flushes[1] = 2
    /\ flushPc[1] = "returned"
    /\ FlushOver(1)
    /\ Len(requests[1]) > maxRequests(1)
    /\ \A op \in 1..Len(requests[1]) : resolveCalls[1][op] = 2

====
